---- MODULE Spec2Model ----
(***************************************************************************)
(* Transaction scopes of psycopg3 (psycopg3/transaction.py) on top of the  *)
(* connection's commit()/rollback() (psycopg3/connection.py), run against  *)
(* a model of the server's transaction block (BEGIN / SAVEPOINT / ...).    *)
(*                                                                         *)
(* One action per handler: Transaction.__enter__, Transaction.__exit__,    *)
(* Connection.commit, Connection.rollback, plus the caller's own steps     *)
(* (creating a scope object, running a statement, raising and catching an  *)
(* exception, assigning autocommit).                                       *)
(***************************************************************************)
EXTENDS Integers, Sequences, FiniteSets, TLC

\* ------------------------------------------------------------------ bounds

\* Deepest nesting of with-blocks (the server keeps at most one savepoint more).
MaxScopes == 2
\* Number of rows the callers insert before the test table is recreated.
MaxRows == 2
\* Deepest nesting when every scope is a plain conn.transaction().
MaxDeep == 3

\* ------------------------------------------------------------- vocabulary

\* Python's None, for an absent savepoint name and an absent Rollback target.
None == "<None>"

\* savepoint_name arguments the callers pass to Connection.transaction().
GivenNames == {None, "foo"}

\* A scope is identified by its depth among the with-blocks around it; Foreign
\* stands for a Transaction object that is not one of them.
Foreign == -1
Rows == 1..MaxRows

\* pq.TransactionStatus values the handlers compare against.
IDLE == "IDLE"
INTRANS == "INTRANS"
INERROR == "INERROR"
\* ... and what libpq reports once the connection is finished.
UNKNOWN == "UNKNOWN"

NoExc == [kind |-> "none", target |-> 0]
Expected == [kind |-> "ExpectedException", target |-> 0]
OperationalError == [kind |-> "OperationalError", target |-> 0]
AssertionError == [kind |-> "AssertionError", target |-> 0]
IndexError == [kind |-> "IndexError", target |-> 0]
\* Rollback(transaction): target 0 is Rollback() / Rollback(None).
Rollback(t) == [kind |-> "Rollback", target |-> t]
\* Not an exception: what ev keeps of a commit() the server answered with an
\* error.
Refused == [kind |-> "refused", target |-> 0]

\* A command as the scope builds it: the bytes sent, and the parts the server
\* parses out of them.
Cmd(verb, name) ==
    [verb |-> verb, name |-> name,
     text |-> IF name = "" THEN verb ELSE verb \o " " \o name]

BEGIN == Cmd("BEGIN", "")
COMMIT == Cmd("COMMIT", "")
ROLLBACK == Cmd("ROLLBACK", "")
SAVEPOINT(n) == Cmd("SAVEPOINT", n)
RELEASE(n) == Cmd("RELEASE SAVEPOINT", n)
ROLLBACK_TO(n) == Cmd("ROLLBACK TO SAVEPOINT", n)

\* A faulty name generator that counts the savepoints from 0.
AutoName_from_zero(n) == "tx_savepoint_" \o ToString(n - 1)

\* b"tx_savepoint_%i" % n
AutoName(n) == "tx_savepoint_" \o ToString(n)

\* ----------------------------------------------------------------- server

\* The server side of the session: the transaction status libpq reports, the
\* open transaction block as a stack of frames (frame 1 is the block itself,
\* the others are its savepoints, each with the rows inserted since it was
\* defined), and the committed rows.
BaseFrame == [name |-> "", rows |-> {}]

SrvIdle(committed) == [status |-> IDLE, frames |-> <<>>, committed |-> committed]

RECURSIVE FrameRows(_)
FrameRows(frames) ==
    IF frames = <<>> THEN {}
    ELSE Head(frames).rows \cup FrameRows(Tail(frames))

\* Index of the innermost savepoint called n, 0 when there is none.
FindSavepoint(frames, n) ==
    LET hits == {i \in 2..Len(frames) : frames[i].name = n}
    IN  IF hits = {} THEN 0 ELSE CHOOSE i \in hits : \A j \in hits : j <= i

\* Rows the session sees.
Visible(srv) == srv.committed \cup FrameRows(srv.frames)

\* A statement that fails aborts the open transaction block.
SrvError(srv) ==
    [srv |-> IF srv.status = IDLE THEN srv ELSE [srv EXCEPT !.status = INERROR],
     ok |-> FALSE]

SrvOk(srv) == [srv |-> srv, ok |-> TRUE]

\* A COMMIT the server refuses at commit time (a deferred constraint fails):
\* the transaction block ends and its changes are discarded.
SrvReject(srv) == [srv |-> SrvIdle(srv.committed), ok |-> FALSE]

\* A faulty close() that opens a closed connection again.
SrvFinished_toggling(srv) ==
    [status |-> IF srv.status = UNKNOWN THEN IDLE ELSE UNKNOWN,
     frames |-> <<>>, committed |-> srv.committed]

\* The session after PQfinish: the open transaction block is gone.
SrvFinished(srv) ==
    [status |-> UNKNOWN, frames |-> <<>>, committed |-> srv.committed]

\* The server executing one transaction-control command.
SrvExec(srv, cmd) ==
    CASE cmd.verb = "BEGIN" ->
            IF srv.status = IDLE
            THEN SrvOk([srv EXCEPT !.status = INTRANS, !.frames = <<BaseFrame>>])
            ELSE IF srv.status = INTRANS
            THEN SrvOk(srv)   \* WARNING: there is already a transaction in progress
            ELSE SrvError(srv)
      [] cmd.verb = "COMMIT" ->
            IF srv.status = INTRANS
            THEN SrvOk(SrvIdle(Visible(srv)))
            ELSE SrvOk(SrvIdle(srv.committed))  \* aborted block: COMMIT rolls back
      [] cmd.verb = "ROLLBACK" ->
            SrvOk(SrvIdle(srv.committed))
      [] cmd.verb = "SAVEPOINT" ->
            IF srv.status = INTRANS
            THEN SrvOk([srv EXCEPT !.frames =
                            Append(@, [name |-> cmd.name, rows |-> {}])])
            ELSE SrvError(srv)
      [] cmd.verb = "RELEASE SAVEPOINT" ->
            LET i == FindSavepoint(srv.frames, cmd.name)
            IN  IF srv.status = INTRANS /\ i > 0
                THEN SrvOk([srv EXCEPT !.frames =
                        Append(SubSeq(@, 1, i - 2),
                               [@[i - 1] EXCEPT !.rows =
                                    @ \cup FrameRows(SubSeq(srv.frames, i,
                                                            Len(srv.frames)))])])
                ELSE SrvError(srv)
      [] cmd.verb = "ROLLBACK TO SAVEPOINT" ->
            LET i == FindSavepoint(srv.frames, cmd.name)
            IN  IF srv.status \in {INTRANS, INERROR} /\ i > 0
                THEN SrvOk([srv EXCEPT !.status = INTRANS,
                                       !.frames = Append(SubSeq(@, 1, i - 1),
                                                         [name |-> cmd.name,
                                                          rows |-> {}])])
                ELSE SrvError(srv)
      [] OTHER -> SrvError(srv)

\* ------------------------------------------------------------------ state

VARIABLES
    srv,          \* the server side of the session (see above)
    savepoints,   \* Connection._savepoints: None, or the list of names
    autocommit,   \* Connection.autocommit
    fresh,        \* Transaction objects created and not yet entered
    stack,        \* the with-blocks the caller is inside, outermost first
    exc,          \* the exception travelling up the caller's stack, if any
    ev,           \* the last operation: what it was given, sent and raised
    log,          \* the commands of the scopes since the connection last had
                  \* none, kept while that run of scopes is a plain one
    rows,         \* per row inserted: the scopes around it, and its fate
    flags,        \* what kind of run of scopes this has been so far
    userac,       \* the last autocommit value the caller assigned
    cgen,         \* a _connect_gen generator and the PGconn it is connecting
    xgen,         \* an _exec_gen generator and the PGconn it reads from
    threads,      \* the threads sharing the connection: where each one is
    lock,         \* Connection.lock: 0 when free, else the thread holding it
    wire,         \* the commands sent on the handle and the results collected
                  \* since no handler was last in progress, in order, each with
                  \* the thread and the call it belongs to
    encoding      \* the session's client_encoding and what the connection has
                  \* cached of it (pgenc, _codec)

\* The connection as one caller sees it, and what the generators and the
\* threads add to it.
connVars == <<srv, savepoints, autocommit, fresh, stack, exc, ev, log, rows,
              flags, userac>>
ioVars == <<cgen, xgen, threads, lock, wire, encoding>>
vars == <<connVars, ioVars>>

\* No generator is running.
NoGen == [pc |-> "none"]

\* The codec cache of a new connection (self.pgenc = b"", no _codec yet) on a
\* session whose client_encoding is UTF8; nothing has read the codec.
NewEncoding ==
    [server |-> "UTF8", pgenc |-> "", codec |-> "<unset>", op |-> "none",
     read |-> "<none>", was |-> [pgenc |-> "", codec |-> "<unset>"],
     changes |-> 0]

\* Connection._savepoints is None / a list.
SpNone == [none |-> TRUE, list |-> <<>>]
SpList(l) == [none |-> FALSE, list |-> l]

NoTx == [st |-> "NONE", name |-> None, given |-> None, force |-> FALSE,
           outer |-> FALSE]

\* Transaction.__init__: stores the name and the flag, sends nothing.
TxInit(savepoint_name, force_rollback) ==
    [tx |-> [st |-> "NEW", name |-> savepoint_name, given |-> savepoint_name,
             force |-> force_rollback, outer |-> FALSE],
     cmds |-> <<>>]

\* A handler's run: the server, the connection's savepoint list and autocommit
\* flag and the scope as changed so far, the commands sent so far, and the
\* exception that ended it, if any.
Run(s, sp, ac, t) ==
    [srv |-> s, sp |-> sp, ac |-> ac, tx |-> t, cmds |-> <<>>, err |-> NoExc]

\* Connection._exec_command: send one command, raise unless it succeeded.
ExecCommand(r, cmd) ==
    IF r.err # NoExc THEN r
    ELSE IF r.srv.status = UNKNOWN THEN [r EXCEPT !.err = OperationalError]
    ELSE LET x == SrvExec(r.srv, cmd)
         IN  [r EXCEPT !.srv = x.srv,
                       !.cmds = Append(@, cmd.text),
                       !.err = IF x.ok THEN NoExc ELSE OperationalError]

\* Transaction._log_and_exec_command
LogAndExec(r, cmd) == ExecCommand(r, cmd)

\* assert self._conn._savepoints is not None; self._conn._savepoints.pop()
PopSavepoint(r) ==
    IF r.err # NoExc THEN r
    ELSE IF r.sp.none THEN [r EXCEPT !.err = AssertionError]
    ELSE IF r.sp.list = <<>> THEN [r EXCEPT !.err = IndexError]
    ELSE [r EXCEPT !.sp = SpList(SubSeq(@.list, 1, Len(@.list) - 1))]

\* self._conn._savepoints.append(self._savepoint_name)
PushSavepoint(r) ==
    IF r.err # NoExc THEN r
    ELSE [r EXCEPT !.sp = SpList(Append(@.list, r.tx.name))]

\* self._conn._savepoints = None
ClearSavepoints(r) ==
    IF r.err # NoExc THEN r ELSE [r EXCEPT !.sp = SpNone]

\* Python truth of a bytes-or-None name, as `if self._savepoint_name:` reads it.
Truthy(name) == name # None /\ name # ""

\* A faulty __enter__ that opens an outer frame whatever the status.
EnterFrame_always_outer(r) ==
    LogAndExec([r EXCEPT !.sp = SpList(<<>>), !.tx.outer = TRUE], BEGIN)

\* A faulty __enter__ that switches autocommit off when it opens the outer
\* frame, and that no __exit__ undoes.
EnterFrame_clears_autocommit(r) ==
    IF r.srv.status = IDLE
    THEN IF ~r.sp.none
         THEN [r EXCEPT !.err = AssertionError]
         ELSE LogAndExec([r EXCEPT !.sp = SpList(<<>>), !.tx.outer = TRUE,
                                   !.ac = FALSE], BEGIN)
    ELSE LET sp == IF r.sp.none THEN SpList(<<>>) ELSE r.sp
         IN  [r EXCEPT !.sp = sp,
                       !.tx.outer = FALSE,
                       !.tx.name = IF @ = None
                                   THEN AutoName(Len(sp.list) + 1)
                                   ELSE @]

\* A faulty __enter__ that makes up a savepoint name for the outer frame too.
EnterFrame_names_outer(r) ==
    IF r.srv.status = IDLE
    THEN IF ~r.sp.none
         THEN [r EXCEPT !.err = AssertionError]
         ELSE LogAndExec([r EXCEPT !.sp = SpList(<<>>), !.tx.outer = TRUE,
                                   !.tx.name = IF @ = None THEN AutoName(1)
                                               ELSE @], BEGIN)
    ELSE LET sp == IF r.sp.none THEN SpList(<<>>) ELSE r.sp
         IN  [r EXCEPT !.sp = sp,
                       !.tx.outer = FALSE,
                       !.tx.name = IF @ = None
                                   THEN AutoName(Len(sp.list) + 1)
                                   ELSE @]

\* Transaction.__enter__, first half: the outer frame or an inner one.
EnterFrame(r) ==
    IF r.srv.status = IDLE
    THEN IF ~r.sp.none
         THEN [r EXCEPT !.err = AssertionError]
         ELSE LogAndExec([r EXCEPT !.sp = SpList(<<>>), !.tx.outer = TRUE], BEGIN)
    ELSE LET sp == IF r.sp.none THEN SpList(<<>>) ELSE r.sp
         IN  [r EXCEPT !.sp = sp,
                       !.tx.outer = FALSE,
                       !.tx.name = IF @ = None
                                   THEN AutoName(Len(sp.list) + 1)
                                   ELSE @]

\* A faulty __enter__ that defines a savepoint for inner frames only.
EnterSavepoint_inner_only(r) ==
    IF r.err # NoExc \/ r.tx.name = None \/ r.tx.outer THEN r
    ELSE PushSavepoint(LogAndExec(r, SAVEPOINT(r.tx.name)))

\* Transaction.__enter__, second half: the savepoint, when there is a name.
EnterSavepoint(r) ==
    IF r.err # NoExc \/ r.tx.name = None THEN r
    ELSE PushSavepoint(LogAndExec(r, SAVEPOINT(r.tx.name)))

\* Transaction.__enter__
TxEnter(s, sp, ac, t) == EnterSavepoint(EnterFrame(Run(s, sp, ac, t)))

\* A faulty __exit__ that swallows no Rollback.
Swallows_nothing(id, t, e) == FALSE

\* A faulty __exit__ that swallows every Rollback.
Swallows_any_target(id, t, e) == ~t.force /\ e.kind = "Rollback"

\* A faulty __exit__ that looks at force_rollback only.
CommitPath_whatever_raised(t, e) == ~t.force

\* A faulty __exit__ that looks at the exception only.
CommitPath_without_force(t, e) == e.kind = "none"

\* Transaction.__exit__: the branch taken (commit when no exception came in and
\* force_rollback is off).
CommitPath(t, e) == e.kind = "none" /\ ~t.force

\* A faulty __exit__ that releases the savepoint on either path.
ExitSavepoint_releasing(r, commit) ==
    IF ~Truthy(r.tx.name) THEN r
    ELSE LogAndExec(PopSavepoint(r), RELEASE(r.tx.name))

\* Transaction.__exit__, the savepoint of this scope.
ExitSavepoint(r, commit) ==
    IF ~Truthy(r.tx.name) THEN r
    ELSE LogAndExec(PopSavepoint(r),
                    IF commit THEN RELEASE(r.tx.name) ELSE ROLLBACK_TO(r.tx.name))

\* A faulty __exit__ that ends the outer frame with ROLLBACK on either path.
ExitOuter_rolling_back(r, commit) ==
    IF ~r.tx.outer THEN r
    ELSE ClearSavepoints(LogAndExec(r, ROLLBACK))

\* A faulty __exit__ that leaves autocommit off after the outer frame.
ExitOuter_autocommit_off(r, commit) ==
    IF ~r.tx.outer THEN r
    ELSE [ClearSavepoints(LogAndExec(r, IF commit THEN COMMIT ELSE ROLLBACK))
            EXCEPT !.ac = FALSE]

\* Transaction.__exit__, the outer frame.
ExitOuter(r, commit) ==
    IF ~r.tx.outer THEN r
    ELSE ClearSavepoints(LogAndExec(r, IF commit THEN COMMIT ELSE ROLLBACK))

\* Transaction.__exit__: what it returns (True swallows the exception).
Swallows(id, t, e) ==
    /\ ~CommitPath(t, e)
    /\ e.kind = "Rollback"
    /\ e.target \in {id, 0}

\* Transaction.__exit__
TxExit(s, sp, ac, t, e) ==
    ExitOuter(ExitSavepoint(Run(s, sp, ac, t), CommitPath(t, e)),
              CommitPath(t, e))

\* ---------------------------------------------------------------- actions

\* What ev remembers of the state an operation started from.
Was ==
    [status |-> srv.status, autocommit |-> autocommit, depth |-> Len(stack),
     committed |-> srv.committed, sp |-> savepoints]

\* hops: the scopes the exception handed to __exit__ has already left.
Event(op, t, e, cmds, err) ==
    [op |-> op, tx |-> t, exc |-> e, cmds |-> cmds, err |-> err, was |-> Was,
     hops |-> IF op = "exit" /\ exc # NoExc /\ ev.op = "exit"
              THEN ev.hops + 1 ELSE 0]

\* meddled: commit() or rollback() sent a command while a scope was open.
\* plain: every scope of the run was created without a name and without
\* force_rollback and left without an exception, every statement succeeded,
\* and the run has sent at most MaxLog commands.
\* scopes: the scopes entered in the run, counted while it is plain.
\* shadowed: a scope rolled back to its savepoint, or failed to release it,
\* while a scope around it had a savepoint of the same name.
\* from: the transaction status when the outermost scope of the run was entered.
NoFlags ==
    [meddled |-> FALSE, plain |-> TRUE, scopes |-> 0, shadowed |-> FALSE,
     from |-> IDLE]
MaxLog == 2 * MaxScopes

\* A row not inserted yet; once inserted, `in` is the set of scopes (depths)
\* still open around the insert, and `fate` is "free" for a row inserted outside
\* every scope, "kept" for one inserted inside scopes none of which has rolled
\* back, "lost" once a scope around it has rolled back because of an exception,
\* "forced" once one has rolled back without an exception (force_rollback).
NoRow == [fate |-> "none", in |-> {}]

ConnInit ==
    /\ srv = SrvIdle({})
    /\ savepoints = SpNone
    /\ autocommit = FALSE
    /\ fresh = <<>>
    /\ stack = <<>>
    /\ exc = NoExc
    /\ ev = [op |-> "connect", tx |-> NoTx, exc |-> NoExc, cmds |-> <<>>,
             err |-> NoExc, hops |-> 0,
             was |-> [status |-> IDLE, autocommit |-> FALSE, depth |-> 0,
                      committed |-> {}, sp |-> SpNone]]
    /\ log = <<>>
    /\ rows = [v \in Rows |-> NoRow]
    /\ flags = NoFlags
    /\ userac = FALSE

\* One caller, an open connection, nothing in progress.
Init ==
    /\ ConnInit
    /\ cgen = NoGen
    /\ xgen = NoGen
    /\ threads = <<>>
    /\ lock = 0
    /\ wire = <<>>
    /\ encoding = NewEncoding

\* The first step the caller takes once the outermost scope has left closes the
\* record of that run of scopes: log and flags start afresh, and the rows are
\* remembered only as present in the table or not.
LogOutside == IF stack = <<>> THEN <<>> ELSE log
FlagsOutside == IF stack = <<>> THEN NoFlags ELSE flags
RowsOutside ==
    IF stack # <<>> THEN rows
    ELSE [v \in Rows |-> IF v \in Visible(srv)
                         THEN [fate |-> "free", in |-> {}]
                         ELSE NoRow]

\* The record of a run after a scope operation that sent cmds: given is what the
\* operation was given that a plain run is not (a name, force_rollback, an
\* exception), err what it raised.
Plain(f, l, given, cmds, err) ==
    f.plain /\ ~f.meddled /\ ~given /\ err = NoExc /\ Len(l) + Len(cmds) <= MaxLog
LogAfter(f, l, given, cmds, err) ==
    IF Plain(f, l, given, cmds, err) THEN l \o cmds ELSE <<>>
FlagsAfter(f, l, op, given, cmds, err) ==
    [f EXCEPT !.plain = Plain(f, l, given, cmds, err),
              !.scopes = IF ~Plain(f, l, given, cmds, err) THEN 0
                         ELSE IF op = "enter" THEN @ + 1 ELSE @]

\* tx = conn.transaction(savepoint_name, force_rollback), by a caller that goes
\* on to enter it.
Create(name, force) ==
    /\ exc = NoExc
    /\ fresh = <<>>
    /\ srv.status # UNKNOWN
    /\ Len(stack) < MaxScopes
    /\ Len(srv.frames) <= MaxScopes
    /\ LET r == TxInit(name, force)
       IN  /\ fresh' = <<r.tx>>
           /\ ev' = Event("create", r.tx, NoExc, r.cmds, NoExc)
    /\ log' = LogOutside
    /\ flags' = FlagsOutside
    /\ rows' = RowsOutside
    /\ UNCHANGED <<srv, savepoints, autocommit, stack, exc, userac>>
    /\ UNCHANGED ioVars

\* tx = conn.transaction(), by callers that nest their with-blocks deeper.
CreateDeep ==
    /\ exc = NoExc
    /\ fresh = <<>>
    /\ srv.status # UNKNOWN
    /\ Len(stack) < MaxDeep
    /\ Len(srv.frames) <= MaxDeep
    /\ LET r == TxInit(None, FALSE)
       IN  /\ fresh' = <<r.tx>>
           /\ ev' = Event("create", r.tx, NoExc, r.cmds, NoExc)
    /\ log' = LogOutside
    /\ flags' = FlagsOutside
    /\ rows' = RowsOutside
    /\ UNCHANGED <<srv, savepoints, autocommit, stack, exc, userac>>
    /\ UNCHANGED ioVars

\* with tx:  (Transaction.__enter__; the body runs only when it returns)
Enter ==
    /\ exc = NoExc
    /\ fresh # <<>>
    /\ LET r == TxEnter(srv, savepoints, autocommit, fresh[1])
           entered == r.err = NoExc
           t == [r.tx EXCEPT !.st = IF entered THEN "ENTERED" ELSE "FAILED"]
           odd == t.given # None \/ t.force
       IN  /\ srv' = r.srv
           /\ savepoints' = r.sp
           /\ autocommit' = r.ac
           /\ fresh' = <<>>
           /\ stack' = IF entered THEN Append(stack, t) ELSE stack
           /\ exc' = r.err
           /\ ev' = Event("enter", t, NoExc, r.cmds, r.err)
           /\ log' = LogAfter(FlagsOutside, LogOutside, odd, r.cmds, r.err)
           /\ flags' = [FlagsAfter(FlagsOutside, LogOutside, "enter", odd,
                                    r.cmds, r.err)
                            EXCEPT !.from = IF entered /\ stack = <<>>
                                            THEN srv.status ELSE @]
    /\ rows' = RowsOutside
    /\ UNCHANGED userac
    /\ UNCHANGED ioVars

\* Exceptions the caller's code raises inside a with-block.
Raisable ==
    {Expected} \cup {Rollback(t) : t \in (0..Len(stack)) \cup {Foreign}}

\* The rows after the scope at depth d has left: on the rollback path every row
\* inserted inside it is lost.
RowsAfterExit(d, commit, e) ==
    [v \in Rows |->
        IF d \in rows[v].in
        THEN [fate |-> IF commit \/ rows[v].fate # "kept" THEN rows[v].fate
                       ELSE IF e = NoExc THEN "forced" ELSE "lost",
              in |-> rows[v].in \ {d}]
        ELSE rows[v]]

\* A scope around the one at depth d has a savepoint of the same name.
SameNameAround(d) ==
    \E i \in 1..(d - 1) : Truthy(stack[i].name) /\ stack[i].name = stack[d].name

\* The end of the innermost with-block (Transaction.__exit__): reached normally,
\* by an exception the body raises, or by one coming up from an inner block.
Exit(e) ==
    /\ fresh = <<>>
    /\ stack # <<>>
    /\ IF exc = NoExc THEN e \in {NoExc} \cup Raisable ELSE e = exc
    /\ LET d == Len(stack)
           r == TxExit(srv, savepoints, autocommit, stack[d], e)
           commit == CommitPath(stack[d], e)
           swallowed == r.err = NoExc /\ Swallows(d, stack[d], e)
           t == [r.tx EXCEPT !.st = IF r.err # NoExc THEN "FAILED"
                                    ELSE IF commit THEN "COMMITTED"
                                    ELSE "ROLLED_BACK"]
           odd == e # NoExc
       IN  /\ srv' = r.srv
           /\ savepoints' = r.sp
           /\ autocommit' = r.ac
           /\ stack' = SubSeq(stack, 1, d - 1)
           /\ exc' = IF r.err # NoExc THEN r.err
                     ELSE IF swallowed THEN NoExc ELSE e
           /\ ev' = Event("exit", t, e, r.cmds, r.err)
           /\ log' = LogAfter(flags, log, odd, r.cmds, r.err)
           /\ flags' = [FlagsAfter(flags, log, "exit", odd, r.cmds, r.err)
                            EXCEPT !.shadowed = @ \/ (SameNameAround(d)
                                                     /\ ~(commit /\ r.err = NoExc))]
           /\ rows' = RowsAfterExit(d, commit, e)
    /\ UNCHANGED <<fresh, userac>>
    /\ UNCHANGED ioVars

\* The caller handles the exception (try/except, pytest.raises).
Catch ==
    /\ fresh = <<>>
    /\ exc # NoExc
    /\ exc' = NoExc
    /\ ev' = Event("catch", NoTx, exc, <<>>, NoExc)
    /\ log' = LogOutside
    /\ flags' = FlagsOutside
    /\ rows' = RowsOutside
    /\ UNCHANGED <<srv, savepoints, autocommit, fresh, stack, userac>>
    /\ UNCHANGED ioVars

\* The cursor starts a transaction before a statement unless autocommit is on.
ImplicitBegin(s, ac) ==
    IF s.status = IDLE /\ ~ac THEN SrvExec(s, BEGIN).srv ELSE s

\* The server storing a row.
SrvInsert(s, v) ==
    IF s.status = IDLE THEN [s EXCEPT !.committed = @ \cup {v}]
    ELSE [s EXCEPT !.frames[Len(s.frames)].rows = @ \cup {v}]

\* insert_row(conn, value)
Insert ==
    /\ fresh = <<>>
    /\ exc = NoExc
    /\ srv.status \in {IDLE, INTRANS}
    /\ \E v \in Rows :
        /\ RowsOutside[v].fate = "none"
        /\ \A w \in Rows : w < v => RowsOutside[w].fate # "none"
        /\ srv' = SrvInsert(ImplicitBegin(srv, autocommit), v)
        /\ rows' = [RowsOutside EXCEPT ![v] =
                        [fate |-> IF stack = <<>> THEN "free" ELSE "kept",
                         in |-> 1..Len(stack)]]
    /\ ev' = Event("insert", NoTx, NoExc, <<>>, NoExc)
    /\ log' = LogOutside
    /\ flags' = FlagsOutside
    /\ UNCHANGED <<savepoints, autocommit, fresh, stack, exc, userac>>
    /\ UNCHANGED ioVars

\* cur.execute("meh"): a statement the server rejects, the error handled by
\* the caller.
Fail ==
    /\ fresh = <<>>
    /\ exc = NoExc
    /\ srv.status # UNKNOWN
    /\ LET s == SrvError(ImplicitBegin(srv, autocommit)).srv
       IN  /\ s # srv
           /\ srv' = s
    /\ flags' = IF stack # <<>>
                THEN [flags EXCEPT !.plain = FALSE, !.scopes = 0] ELSE NoFlags
    /\ log' = <<>>
    /\ ev' = Event("fail", NoTx, NoExc, <<>>, NoExc)
    /\ rows' = RowsOutside
    /\ UNCHANGED <<savepoints, autocommit, fresh, stack, exc, userac>>
    /\ UNCHANGED ioVars

\* The bytes Connection.commit() / rollback() pass down, as the server reads
\* them.
ConnCommand(command) ==
    [verb |-> IF command = "commit" THEN "COMMIT" ELSE "ROLLBACK", name |-> "",
     text |-> command]

\* A faulty commit()/rollback() that sends its command whatever the status.
ExecCommitRollback_unconditional(s, sp, ac, command, refused) ==
    IF s.status = UNKNOWN
    THEN [Run(s, sp, ac, NoTx) EXCEPT !.err = OperationalError]
    ELSE LET x == IF refused THEN SrvReject(s)
                  ELSE SrvExec(s, ConnCommand(command))
         IN  [Run(x.srv, sp, ac, NoTx) EXCEPT
                    !.cmds = <<command>>,
                    !.err = IF x.ok THEN NoExc ELSE OperationalError]

\* A faulty commit()/rollback() that does not look at the result.
ExecCommitRollback_unchecked(s, sp, ac, command, refused) ==
    IF s.status = IDLE THEN Run(s, sp, ac, NoTx)
    ELSE IF s.status = UNKNOWN
    THEN [Run(s, sp, ac, NoTx) EXCEPT !.err = OperationalError]
    ELSE LET x == IF refused THEN SrvReject(s)
                  ELSE SrvExec(s, ConnCommand(command))
         IN  [Run(x.srv, sp, ac, NoTx) EXCEPT !.cmds = <<command>>]

\* Connection._exec_commit_rollback; refused says that the server answers the
\* command with an error.
ExecCommitRollback(s, sp, ac, command, refused) ==
    IF s.status = IDLE THEN Run(s, sp, ac, NoTx)
    ELSE IF s.status = UNKNOWN
    THEN [Run(s, sp, ac, NoTx) EXCEPT !.err = OperationalError]
    ELSE LET x == IF refused THEN SrvReject(s)
                  ELSE SrvExec(s, ConnCommand(command))
         IN  [Run(x.srv, sp, ac, NoTx) EXCEPT
                    !.cmds = <<command>>,
                    !.err = IF x.ok THEN NoExc ELSE OperationalError]

\* conn.commit() / conn.rollback(); the server can refuse a COMMIT of an open
\* transaction block.
CommitRollback(command, refused) ==
    /\ fresh = <<>>
    /\ exc = NoExc
    /\ refused => command = "commit" /\ srv.status = INTRANS
    /\ LET r == ExecCommitRollback(srv, savepoints, autocommit, command, refused)
       IN  /\ srv' = r.srv
           /\ savepoints' = r.sp
           /\ autocommit' = r.ac
           /\ exc' = r.err
           /\ ev' = Event(command, NoTx, IF refused THEN Refused ELSE NoExc,
                          r.cmds, r.err)
           /\ flags' = IF stack # <<>> /\ r.cmds # <<>>
                       THEN [flags EXCEPT !.meddled = TRUE, !.plain = FALSE,
                                          !.scopes = 0]
                       ELSE FlagsOutside
           /\ log' = IF stack # <<>> /\ r.cmds # <<>> THEN <<>> ELSE LogOutside
    /\ rows' = RowsOutside
    /\ UNCHANGED <<fresh, stack, userac>>
    /\ UNCHANGED ioVars

\* A faulty setter that looks only at the scopes.
SetAutocommitAllowed_outside_scopes(s, active) == active = 0

\* The autocommit setter: refused unless the session is idle and no scope is
\* active on the connection.
SetAutocommitAllowed(s, active) == s.status = IDLE /\ active = 0

\* conn.autocommit = value, with a value other than the current one
SetAutocommit(value) ==
    /\ fresh = <<>>
    /\ exc = NoExc
    /\ value # autocommit
    /\ IF SetAutocommitAllowed(srv, Len(stack))
       THEN /\ autocommit' = value
            /\ userac' = value
            /\ ev' = Event("autocommit", NoTx, NoExc, <<>>, NoExc)
       ELSE /\ UNCHANGED <<autocommit, userac>>
            /\ ev' = Event("autocommit", NoTx, NoExc, <<>>,
                           [kind |-> "ProgrammingError", target |-> 0])
    /\ log' = LogOutside
    /\ flags' = FlagsOutside
    /\ rows' = RowsOutside
    /\ UNCHANGED <<srv, savepoints, fresh, stack, exc>>
    /\ UNCHANGED ioVars

\* conn.close(), by a caller that is not inside a with-block.
Close ==
    /\ fresh = <<>>
    /\ exc = NoExc
    /\ stack = <<>>
    /\ srv' = SrvFinished(srv)
    /\ ev' = Event("close", NoTx, NoExc, <<>>, NoExc)
    /\ log' = <<>>
    /\ flags' = NoFlags
    /\ rows' = [v \in Rows |-> IF v \in srv.committed
                                THEN [fate |-> "free", in |-> {}]
                                ELSE NoRow]
    /\ UNCHANGED <<savepoints, autocommit, fresh, stack, exc, userac>>
    /\ UNCHANGED ioVars

\* The test fixture drops and recreates the table.
ResetTable ==
    /\ fresh = <<>>
    /\ exc = NoExc
    /\ stack = <<>>
    /\ srv.status = IDLE
    /\ srv.committed # {}
    /\ srv' = [srv EXCEPT !.committed = {}]
    /\ rows' = [v \in Rows |-> NoRow]
    /\ log' = <<>>
    /\ flags' = NoFlags
    /\ ev' = Event("reset", NoTx, NoExc, <<>>, NoExc)
    /\ UNCHANGED <<savepoints, autocommit, fresh, stack, exc, userac>>
    /\ UNCHANGED ioVars

Next ==
    \/ \E name \in GivenNames, force \in BOOLEAN : Create(name, force)
    \/ Enter
    \/ \E e \in {NoExc, Expected, OperationalError, AssertionError, IndexError}
                \cup {Rollback(t) : t \in (0..MaxScopes) \cup {Foreign}} : Exit(e)
    \/ Catch
    \/ Insert
    \/ Fail
    \/ \E command \in {"commit", "rollback"}, refused \in BOOLEAN :
            CommitRollback(command, refused)
    \/ Close
    \/ \E value \in BOOLEAN : SetAutocommit(value)
    \/ ResetTable

Spec == Init /\ [][Next]_vars

\* Plain scopes only, nested up to MaxDeep.
NextDeep ==
    \/ CreateDeep
    \/ Enter
    \/ \E e \in {NoExc, Expected}
                \cup {Rollback(t) : t \in (0..MaxDeep) \cup {Foreign}} : Exit(e)
    \/ Catch
    \/ Insert
    \/ \E command \in {"commit", "rollback"} : CommitRollback(command, FALSE)
    \/ ResetTable

SpecDeep == Init /\ [][NextDeep]_vars

\* ----------------------------------------------------------------- claims

\* The last command an operation sent ("" when it sent none).
LastCmd(cmds) == IF cmds = <<>> THEN "" ELSE cmds[Len(cmds)]

\* Rows by what became of them (see NoRow).
Kept == {v \in Rows : rows[v].fate = "kept"}
Lost == {v \in Rows : rows[v].fate = "lost"}
Forced == {v \in Rows : rows[v].fate = "forced"}
InScopes == Kept \cup Lost \cup Forced

\* The last operation was __exit__ of a scope that had been entered at IDLE.
OuterExit == ev.op = "exit" /\ ev.tx.outer
\* The last operation was __exit__ of a scope entered inside a transaction.
InnerExit == ev.op = "exit" /\ ~ev.tx.outer
\* ... reached without an exception, force_rollback off.
NormalExit == ev.exc = NoExc /\ ~ev.tx.force

\* C1: creating a scope sends nothing; entering a scope without a savepoint
\* name while the session is IDLE sends exactly BEGIN and leaves the session
\* INTRANS; leaving that scope with no exception and force_rollback off sends
\* exactly COMMIT and leaves the session IDLE.
C1_BasicScope ==
    /\ ev.op = "create" =>
            ev.cmds = <<>> /\ srv.status = ev.was.status
    /\ (ev.op = "enter" /\ ev.err = NoExc /\ ev.was.status = IDLE
            /\ ev.tx.given = None) =>
            ev.cmds = <<"BEGIN">> /\ srv.status = INTRANS
    /\ (OuterExit /\ ev.tx.given = None /\ NormalExit) =>
            ev.cmds = <<"COMMIT">> /\ ev.err = NoExc /\ srv.status = IDLE

C1_Witness ==
    /\ OuterExit /\ ev.tx.given = None /\ NormalExit
    /\ ev.was.status = INTRANS /\ ev.was.depth = 1
    /\ ev.cmds = <<"COMMIT">>
    /\ Kept # {} /\ Kept \subseteq srv.committed

\* C2: when an exception other than Rollback leaves a scope that was entered
\* at IDLE (in a run where the caller called no commit()/rollback() inside a
\* scope), __exit__ ends with ROLLBACK and sends no COMMIT, the session is
\* IDLE, no row inserted inside the scope is in the table, and the exception
\* the caller sees is the one that came in.
C2_RollbackOnException ==
    (OuterExit /\ ev.exc.kind \notin {"none", "Rollback"} /\ ~flags.meddled) =>
        /\ LastCmd(ev.cmds) = "ROLLBACK"
        /\ \A i \in 1..Len(ev.cmds) : ev.cmds[i] # "COMMIT"
        /\ srv.status = IDLE
        /\ InScopes \cap Visible(srv) = {}
        /\ ev.err = NoExc
        /\ exc = ev.exc

C2_Witness ==
    /\ OuterExit /\ ev.exc = Expected /\ ~flags.meddled
    /\ ev.cmds = <<"ROLLBACK">>
    /\ srv.status = IDLE
    /\ Lost # {}
    /\ exc = Expected

\* C3: two nested scopes without names, the outer one entered at IDLE and both
\* left normally, send BEGIN, SAVEPOINT tx_savepoint_1, RELEASE SAVEPOINT
\* tx_savepoint_1, COMMIT in that order, after which the session is IDLE and
\* the rows inserted in either scope are committed; and a scope entered inside
\* a transaction sends neither BEGIN nor COMMIT, on enter or on exit.
C3_NestedOrder ==
    /\ (OuterExit /\ stack = <<>> /\ flags.plain /\ flags.scopes = 2) =>
            /\ log = <<"BEGIN", "SAVEPOINT tx_savepoint_1",
                       "RELEASE SAVEPOINT tx_savepoint_1", "COMMIT">>
            /\ srv.status = IDLE
            /\ Kept \subseteq srv.committed
    /\ (ev.op \in {"enter", "exit"} /\ ~ev.tx.outer) =>
            \A i \in 1..Len(ev.cmds) : ev.cmds[i] \notin {"BEGIN", "COMMIT"}

C3_Witness ==
    /\ OuterExit /\ stack = <<>> /\ flags.plain /\ flags.scopes = 2
    /\ Len(log) = 4
    /\ Cardinality(Kept) = 2
    /\ Kept \subseteq srv.committed

\* C4: when an exception leaves a scope nested in another scope (in a run with
\* no commit()/rollback() call inside a scope), its __exit__ sends exactly
\* ROLLBACK TO SAVEPOINT with its own savepoint name and leaves the transaction
\* usable (INTRANS); and when the outer scope then ends normally with the
\* transaction not aborted, it ends with COMMIT and the table holds the rows of
\* the scopes that did not roll back and none of the scopes that did (provided
\* no scope kept its savepoint under a scope with a savepoint of the same name).
C4_InnerRollback ==
    /\ (InnerExit /\ stack # <<>> /\ ev.exc # NoExc /\ ~flags.meddled) =>
            /\ ev.cmds = <<"ROLLBACK TO SAVEPOINT " \o ev.tx.name>>
            /\ ev.err = NoExc
            /\ srv.status = INTRANS
            /\ ~flags.shadowed =>
                    Kept \subseteq Visible(srv) /\ Lost \cap Visible(srv) = {}
    /\ (OuterExit /\ NormalExit /\ ev.was.status = INTRANS
            /\ ~flags.meddled /\ ~flags.shadowed) =>
            /\ LastCmd(ev.cmds) = "COMMIT"
            /\ ev.err = NoExc
            /\ srv.status = IDLE
            /\ Kept \subseteq srv.committed
            /\ Lost \cap srv.committed = {}

C4_Witness ==
    /\ OuterExit /\ NormalExit /\ ev.was.status = INTRANS
    /\ ~flags.meddled /\ ~flags.shadowed
    /\ stack = <<>>
    /\ rows[1].fate = "lost" /\ 1 \notin srv.committed
    /\ rows[2].fate = "kept" /\ 2 \in srv.committed

\* C5: entering at IDLE with the savepoint name foo sends BEGIN then SAVEPOINT
\* foo; an exit of that scope on the commit path that succeeds has sent RELEASE
\* SAVEPOINT foo then COMMIT (and it does succeed when the transaction is not
\* aborted and the caller called no commit()/rollback() inside a scope);
\* entering with a name while a transaction is in progress sends only SAVEPOINT
\* with that name.
C5_NamedSavepoint ==
    /\ (ev.op = "enter" /\ ev.err = NoExc /\ ev.was.status = IDLE
            /\ ev.tx.given = "foo") =>
            ev.cmds = <<"BEGIN", "SAVEPOINT foo">> /\ srv.status = INTRANS
    /\ (OuterExit /\ ev.tx.given = "foo" /\ NormalExit) =>
            /\ ev.err = NoExc =>
                    /\ ev.cmds = <<"RELEASE SAVEPOINT foo", "COMMIT">>
                    /\ srv.status = IDLE
            /\ (ev.was.status = INTRANS /\ ~flags.meddled) => ev.err = NoExc
    /\ (ev.op = "enter" /\ ev.was.status # IDLE /\ ev.tx.given # None) =>
            ev.cmds = <<"SAVEPOINT " \o ev.tx.given>>

C5_Witness ==
    /\ OuterExit /\ ev.tx.given = "foo" /\ NormalExit
    /\ ev.cmds = <<"RELEASE SAVEPOINT foo", "COMMIT">>
    /\ Kept # {} /\ Kept \subseteq srv.committed

C7_AutocommitAfterExit ==
    (ev.op = "exit" /\ stack = <<>>) => autocommit = userac

C7_Witness ==
    /\ OuterExit /\ stack = <<>>
    /\ ev.exc = Expected /\ exc = Expected
    /\ userac = TRUE /\ autocommit = TRUE

\* C8: while a scope that was entered at IDLE is the outermost active scope,
\* autocommit reads false.
C8_AutocommitOffInside ==
    (stack # <<>> /\ stack[1].outer) => autocommit = FALSE

C10_CommitRollbackRefused ==
    (ev.op \in {"commit", "rollback"} /\ ev.was.depth > 0) =>
        /\ ev.err.kind = "ProgrammingError"
        /\ ev.cmds = <<>>
        /\ srv.status = ev.was.status

\* C11: assigning autocommit (a value other than the current one) succeeds
\* exactly when the session is IDLE and no scope is active; in every other
\* state (INTRANS, INERROR, UNKNOWN after close, inside a scope) it raises
\* ProgrammingError and autocommit keeps its value.
C11_AutocommitSetter ==
    ev.op = "autocommit" =>
        IF ev.was.status = IDLE /\ ev.was.depth = 0
        THEN /\ ev.err = NoExc
             /\ autocommit # ev.was.autocommit
             /\ userac = autocommit
        ELSE /\ ev.err.kind = "ProgrammingError"
             /\ autocommit = ev.was.autocommit

C11_Witness ==
    /\ ev.op = "autocommit"
    /\ ev.was.depth > 0 /\ ev.was.status = INTRANS
    /\ ev.err.kind = "ProgrammingError"
    /\ autocommit = ev.was.autocommit

\* Rows inserted outside every scope.
Free == {v \in Rows : rows[v].fate = "free"}

\* C12: a scope entered with no other scope active while the caller's own
\* transaction is in progress (INTRANS) sends only SAVEPOINT on enter; its exit
\* sends only RELEASE SAVEPOINT (no exception, force_rollback off, transaction
\* not aborted) or ROLLBACK TO SAVEPOINT (exception), never BEGIN, COMMIT or
\* ROLLBACK; afterwards the session is still INTRANS, the rows inserted before
\* the scope are still there, the rows inserted inside are there after a normal
\* exit and gone after an exception, and none of them is committed. (Runs with
\* no commit()/rollback() call inside a scope; rows of an exception exit for
\* runs where no scope kept its savepoint under a scope with a savepoint of the
\* same name.)
C12_CallerManaged ==
    /\ (ev.op = "enter" /\ ev.was.status = INTRANS /\ ev.was.depth = 0) =>
            /\ ev.cmds = <<"SAVEPOINT " \o ev.tx.name>>
            /\ ev.err = NoExc
            /\ srv.status = INTRANS
    /\ (ev.op = "exit" /\ stack = <<>> /\ flags.from = INTRANS
            /\ ~flags.meddled) =>
            /\ \A i \in 1..Len(ev.cmds) :
                    ev.cmds[i] \notin {"BEGIN", "COMMIT", "ROLLBACK"}
            /\ Free \subseteq Visible(srv)
            /\ srv.committed = ev.was.committed
            /\ (NormalExit /\ ev.was.status = INTRANS) =>
                    /\ ev.cmds = <<"RELEASE SAVEPOINT " \o ev.tx.name>>
                    /\ ev.err = NoExc
                    /\ srv.status = INTRANS
                    /\ Kept \subseteq Visible(srv)
            /\ ev.exc # NoExc =>
                    /\ ev.cmds = <<"ROLLBACK TO SAVEPOINT " \o ev.tx.name>>
                    /\ ev.err = NoExc
                    /\ srv.status = INTRANS
                    /\ ~flags.shadowed => InScopes \cap Visible(srv) = {}

C12_Witness ==
    /\ ev.op = "exit" /\ stack = <<>> /\ flags.from = INTRANS
    /\ ~flags.meddled /\ ~flags.shadowed
    /\ ev.exc = Expected
    /\ srv.status = INTRANS
    /\ rows[1].fate = "free" /\ 1 \in Visible(srv) \ srv.committed
    /\ rows[2].fate = "lost" /\ 2 \notin Visible(srv)

\* The last operation was commit() or rollback().
CommitOrRollback == ev.op \in {"commit", "rollback"}

\* C13: commit() and rollback() called while the session is IDLE send nothing,
\* raise nothing and leave the session IDLE, the table as it was.
C13_IdleNoOp ==
    (CommitOrRollback /\ ev.was.status = IDLE) =>
        /\ ev.cmds = <<>>
        /\ ev.err = NoExc /\ exc = NoExc
        /\ srv.status = IDLE
        /\ srv.committed = ev.was.committed

C13_Witness ==
    /\ ev.op = "rollback" /\ ev.was.status = IDLE
    /\ ev.cmds = <<>> /\ exc = NoExc
    /\ srv.status = IDLE
    /\ srv.committed # {}

\* C14: commit() or rollback() called outside every scope while the session is
\* INTRANS or INERROR sends exactly one command, its own; when the server
\* answers COMMAND_OK nothing is raised and the session is IDLE, with the rows
\* of the transaction committed by a commit from INTRANS and discarded by a
\* rollback or by a commit from INERROR; when the server answers with an error
\* the call raises OperationalError.
C14_CommitRollback ==
    (CommitOrRollback /\ ev.was.depth = 0 /\ ev.was.status \in {INTRANS, INERROR})
    =>  /\ ev.cmds = <<ev.op>>
        /\ ev.exc = NoExc =>
                /\ ev.err = NoExc /\ exc = NoExc
                /\ srv.status = IDLE
                /\ srv.committed =
                        IF ev.op = "commit" /\ ev.was.status = INTRANS
                        THEN ev.was.committed \cup Free
                        ELSE ev.was.committed
        /\ ev.exc = Refused =>
                ev.err = OperationalError /\ exc = OperationalError

C14_Witness ==
    /\ ev.op = "commit" /\ ev.was.depth = 0 /\ ev.was.status = INERROR
    /\ ev.cmds = <<"commit">> /\ exc = NoExc
    /\ srv.status = IDLE
    /\ \E v \in Rows : rows[v].fate = "free" /\ v \notin srv.committed

\* The last operation was __exit__ handed a Rollback aimed at the scope itself
\* (or at none), at a scope around it, or at a scope it has nothing to do with.
RollbackExit == ev.op = "exit" /\ ev.exc.kind = "Rollback"
AimedHere == ev.exc.target \in {0, ev.was.depth}
AimedAbove == ev.exc.target \in 1..(ev.was.depth - 1)

\* C15: a Rollback raised inside a scope with no target, or with that scope as
\* target, makes the scope roll back on exit (ending with ROLLBACK when it was
\* entered at IDLE, exactly ROLLBACK TO SAVEPOINT otherwise) and goes no
\* further: nothing is raised to the enclosing scope, whose transaction is
\* still usable with its own rows in place. (Runs with no commit()/rollback()
\* call inside a scope.)
C15_RollbackSwallowed ==
    (RollbackExit /\ ev.hops = 0 /\ AimedHere /\ ~flags.meddled) =>
        /\ ev.err = NoExc
        /\ exc = NoExc
        /\ ev.tx.outer =>
                /\ LastCmd(ev.cmds) = "ROLLBACK"
                /\ \A i \in 1..Len(ev.cmds) : ev.cmds[i] # "COMMIT"
                /\ srv.status = IDLE
        /\ ~ev.tx.outer =>
                /\ ev.cmds = <<"ROLLBACK TO SAVEPOINT " \o ev.tx.name>>
                /\ srv.status = INTRANS
                /\ ~flags.shadowed =>
                        Kept \subseteq Visible(srv) /\ Lost \cap Visible(srv) = {}

C15_Witness ==
    /\ RollbackExit /\ ev.hops = 0 /\ ev.exc = Rollback(0) /\ ~flags.meddled
    /\ ev.was.depth = 2 /\ Len(stack) = 1 /\ stack[1].outer
    /\ exc = NoExc
    /\ srv.status = INTRANS
    /\ rows[1].fate = "kept" /\ 1 \in Visible(srv)
    /\ rows[2].fate = "lost" /\ 2 \notin Visible(srv)

\* C16: a Rollback aimed at an enclosing scope T leaves every scope inside T
\* by the rollback path and travels on (each such exit sends exactly ROLLBACK
\* TO SAVEPOINT for that scope and raises the same Rollback), T itself rolls
\* back and swallows it, and the scopes around T stay entered, their
\* transaction usable and their own rows in place. (Runs with no
\* commit()/rollback() call inside a scope.)
C16_TargetedRollback ==
    /\ (RollbackExit /\ AimedAbove /\ ~flags.meddled) =>
            /\ ev.cmds = <<"ROLLBACK TO SAVEPOINT " \o ev.tx.name>>
            /\ ev.err = NoExc
            /\ exc = ev.exc
            /\ srv.status = INTRANS
            /\ Len(stack) = ev.was.depth - 1
    /\ (RollbackExit /\ ev.hops > 0 /\ ev.exc.target = ev.was.depth
            /\ ~flags.meddled) =>
            /\ ev.err = NoExc
            /\ exc = NoExc
            /\ LastCmd(ev.cmds) = IF ev.tx.outer THEN "ROLLBACK"
                                  ELSE "ROLLBACK TO SAVEPOINT " \o ev.tx.name
            /\ \A v \in Rows : rows[v].in \subseteq 1..Len(stack)
            /\ stack # <<>> =>
                    /\ \A i \in 1..Len(stack) : stack[i].st = "ENTERED"
                    /\ srv.status = INTRANS
                    /\ ~flags.shadowed =>
                            /\ Kept \subseteq Visible(srv)
                            /\ Lost \cap Visible(srv) = {}

C16_Witness ==
    /\ RollbackExit /\ ev.hops = 1 /\ ev.exc = Rollback(2) /\ ~flags.meddled
    /\ ev.was.depth = 2 /\ Len(stack) = 1 /\ stack[1].outer
    /\ ev.cmds = <<"ROLLBACK TO SAVEPOINT tx_savepoint_1">>
    /\ exc = NoExc
    /\ srv.status = INTRANS
    /\ rows[1].fate = "kept" /\ 1 \in Visible(srv)
    /\ rows[2].fate = "lost" /\ 2 \notin Visible(srv)

\* C17: close() leaves the connection closed and raises nothing, the first
\* time and every time after; once closed the connection never reports any
\* other status, whatever is called on it; and commit() and rollback() on a
\* closed connection raise OperationalError and send nothing.
C17_Close ==
    /\ ev.op = "close" =>
            /\ srv.status = UNKNOWN
            /\ ev.err = NoExc /\ exc = NoExc
            /\ srv.committed = ev.was.committed
            /\ autocommit = ev.was.autocommit
    /\ ev.was.status = UNKNOWN => srv.status = UNKNOWN
    /\ (CommitOrRollback /\ ev.was.status = UNKNOWN) =>
            /\ ev.err = OperationalError /\ exc = OperationalError
            /\ ev.cmds = <<>>

C17_Witness ==
    /\ ev.op = "close" /\ ev.was.status = UNKNOWN
    /\ srv.status = UNKNOWN
    /\ exc = NoExc
    /\ srv.committed # {}

\* C18: Connection._savepoints is in its "no scope" state (None) exactly when
\* the caller is inside no scope of the connection.
C18_StackEmptyIffNoScope ==
    fresh = <<>> => (savepoints.none <=> stack = <<>>)

\* C19: when the outermost scope has been left, the transaction status is what
\* it was when that scope was entered (runs with no commit()/rollback() call
\* inside a scope).
C19_StatusRestored ==
    (ev.op = "exit" /\ stack = <<>> /\ ~flags.meddled) =>
        srv.status = flags.from

\* The commands __enter__ sent for a scope that was entered.
EnterCmds(t) ==
    (IF t.outer THEN <<"BEGIN">> ELSE <<>>)
        \o (IF t.name # None THEN <<"SAVEPOINT " \o t.name>> ELSE <<>>)

\* C20: a scope sends on exit as many commands as it sent on enter (one or
\* two), COMMIT or ROLLBACK for its BEGIN and RELEASE SAVEPOINT x or ROLLBACK
\* TO SAVEPOINT x for its SAVEPOINT x (runs with no commit()/rollback() call
\* inside a scope).
C20_CommandsBalanced ==
    (ev.op = "exit" /\ ~flags.meddled) =>
        /\ Len(ev.cmds) = Len(EnterCmds(ev.tx))
        /\ Len(ev.cmds) \in {1, 2}
        /\ ev.tx.outer => LastCmd(ev.cmds) \in {"COMMIT", "ROLLBACK"}
        /\ ev.tx.name # None =>
                ev.cmds[1] \in {"RELEASE SAVEPOINT " \o ev.tx.name,
                                "ROLLBACK TO SAVEPOINT " \o ev.tx.name}

\* The scopes the caller is inside were all created without a savepoint name.
AllUnnamed == \A i \in 1..Len(stack) : stack[i].given = None

\* C23: a scope created without a savepoint name and entered while a
\* transaction is in progress is named tx_savepoint_N, N being one plus the
\* number of names on Connection._savepoints when it is entered (the name the
\* scope itself pushes not counted): tx_savepoint_1 for the first scope nested
\* in a transaction, tx_savepoint_2 for a scope nested in that one.  Entered at
\* IDLE it gets no name.
C23_AutoName ==
    (ev.op = "enter" /\ ev.tx.given = None) =>
        /\ ev.was.status = IDLE => ev.tx.name = None
        /\ ev.was.status # IDLE =>
                ev.tx.name = AutoName(1 + Len(savepoints.list)
                                        - (IF ev.err = NoExc THEN 1 ELSE 0))
        /\ (ev.err = NoExc /\ AllUnnamed /\ flags.from = IDLE /\ Len(stack) > 1) =>
                ev.tx.name = AutoName(Len(stack) - 1)
        /\ (ev.err = NoExc /\ AllUnnamed /\ flags.from # IDLE) =>
                ev.tx.name = AutoName(Len(stack))

C23_Witness ==
    /\ ev.op = "enter" /\ ev.tx.given = None /\ ev.err = NoExc
    /\ AllUnnamed /\ flags.from = INTRANS
    /\ Len(stack) = 2
    /\ stack[1].name = "tx_savepoint_1"
    /\ ev.tx.name = "tx_savepoint_2"
    /\ LastCmd(ev.cmds) = "SAVEPOINT tx_savepoint_2"

\* C29: the exit of a scope that opened the transaction and defined a savepoint
\* sends its COMMIT or ROLLBACK and resets Connection._savepoints whether or
\* not its RELEASE SAVEPOINT / ROLLBACK TO SAVEPOINT succeeded, so that the
\* connection is left idle with no savepoint recorded (runs with no
\* commit()/rollback() call inside a scope).
C29_CleanupCompletes ==
    (ev.op = "exit" /\ ev.tx.outer /\ Truthy(ev.tx.name) /\ ~flags.meddled) =>
        /\ LastCmd(ev.cmds) \in {"COMMIT", "ROLLBACK"}
        /\ savepoints.none
        /\ srv.status = IDLE

\* C30: when a scope is left by an exception E and one of the commands of its
\* __exit__ (ROLLBACK TO SAVEPOINT, ROLLBACK) fails, E is the exception that
\* leaves the scope.
C30_OriginalExceptionKept ==
    (ev.op = "exit" /\ ev.exc # NoExc /\ ev.err = OperationalError) =>
        exc = ev.exc

\* ------------------------------------------------------------ _connect_gen

\* Times the waiter resumes the generator before the handshake has to end.
MaxResumes == 3

\* pq.ConnStatus: BAD, OK, and the values of a handshake in progress.
CONN_BAD == "BAD"
CONN_OK == "OK"
Connecting == {"STARTED", "MADE", "AWAITING_RESPONSE"}

\* pq.PollingStatus
POLL_OK == "POLL_OK"
READING == "READING"
WRITING == "WRITING"
FAILED == "FAILED"
ACTIVE == "ACTIVE"

\* What pq.error_message() finds on a handle: nothing, or what went wrong.
ErrorMessages == {"could not connect to server", "timeout expired"}

\* An exception with the message it was built with.
ConnError(kind, text) == [kind |-> kind, text |-> text]
NoError == ConnError("none", "")

\* pq.PGconn.connect_start(): a handle that started the handshake, or one
\* that could not.
ConnectStart ==
    {[status |-> "STARTED", msg |-> "", nonblocking |-> 0]}
        \cup {[status |-> CONN_BAD, msg |-> m, nonblocking |-> 0] :
                m \in ErrorMessages}

\* conn.connect_poll(): the status it returns and the handle it leaves.  The
\* handshake goes on, ends, or fails; a handle that failed is BAD and has a
\* message.
ConnectPoll(conn) ==
    {[poll |-> p, conn |-> [conn EXCEPT !.status = st]] :
        p \in {READING, WRITING}, st \in Connecting}
        \cup {[poll |-> POLL_OK, conn |-> [conn EXCEPT !.status = CONN_OK]]}
        \cup {[poll |-> FAILED,
               conn |-> [conn EXCEPT !.status = CONN_BAD, !.msg = m]] :
                m \in ErrorMessages}
        \cup {[poll |-> ACTIVE, conn |-> conn]}

\* gen = cls._connect_gen(conninfo): nothing has run yet.
NewConnectGen ==
    [pc |-> "new", conn |-> [status |-> "", msg |-> "", nonblocking |-> 0],
     polled |-> "none", wait |-> "none", err |-> NoError,
     polls |-> 0, resumes |-> 0, waits |-> <<>>]

\* A faulty loop that asks for write readiness whatever the poll needs.
ConnectIteration_write_only(g, o) ==
    IF g.conn.status = CONN_BAD
    THEN [g EXCEPT !.pc = "raised",
                   !.err = ConnError("OperationalError",
                                     "connection is bad: " \o g.conn.msg)]
    ELSE LET p == [g EXCEPT !.conn = o.conn, !.polled = o.poll, !.polls = @ + 1]
         IN  CASE o.poll = POLL_OK ->
                    [p EXCEPT !.pc = "returned", !.conn.nonblocking = 1]
               [] o.poll \in {READING, WRITING} ->
                    [p EXCEPT !.pc = "yield", !.wait = "W",
                              !.waits = Append(@, "W")]
               [] o.poll = FAILED ->
                    [p EXCEPT !.pc = "raised",
                              !.err = ConnError("OperationalError",
                                        "connection failed: " \o o.conn.msg)]
               [] OTHER ->
                    [p EXCEPT !.pc = "raised",
                              !.err = ConnError("InternalError",
                                        "unexpected poll status: " \o o.poll)]

\* A faulty loop that takes a failed handshake for a finished one.
ConnectIteration_ignoring_failed(g, o) ==
    IF g.conn.status = CONN_BAD
    THEN [g EXCEPT !.pc = "raised",
                   !.err = ConnError("OperationalError",
                                     "connection is bad: " \o g.conn.msg)]
    ELSE LET p == [g EXCEPT !.conn = o.conn, !.polled = o.poll, !.polls = @ + 1]
         IN  CASE o.poll \in {POLL_OK, FAILED} ->
                    [p EXCEPT !.pc = "returned", !.conn.nonblocking = 1]
               [] o.poll = READING ->
                    [p EXCEPT !.pc = "yield", !.wait = "R",
                              !.waits = Append(@, "R")]
               [] o.poll = WRITING ->
                    [p EXCEPT !.pc = "yield", !.wait = "W",
                              !.waits = Append(@, "W")]
               [] OTHER ->
                    [p EXCEPT !.pc = "raised",
                              !.err = ConnError("InternalError",
                                        "unexpected poll status: " \o o.poll)]

\* _connect_gen: one turn of `while 1`, o being what connect_poll() does when
\* the turn gets to it.  The turn ends at a yield, at the return (after
\* conn.nonblocking = 1) or at a raise.
ConnectIteration(g, o) ==
    IF g.conn.status = CONN_BAD
    THEN [g EXCEPT !.pc = "raised",
                   !.err = ConnError("OperationalError",
                                     "connection is bad: " \o g.conn.msg)]
    ELSE LET p == [g EXCEPT !.conn = o.conn, !.polled = o.poll, !.polls = @ + 1]
         IN  CASE o.poll = POLL_OK ->
                    [p EXCEPT !.pc = "returned", !.conn.nonblocking = 1]
               [] o.poll = READING ->
                    [p EXCEPT !.pc = "yield", !.wait = "R",
                              !.waits = Append(@, "R")]
               [] o.poll = WRITING ->
                    [p EXCEPT !.pc = "yield", !.wait = "W",
                              !.waits = Append(@, "W")]
               [] o.poll = FAILED ->
                    [p EXCEPT !.pc = "raised",
                              !.err = ConnError("OperationalError",
                                        "connection failed: " \o o.conn.msg)]
               [] OTHER ->
                    [p EXCEPT !.pc = "raised",
                              !.err = ConnError("InternalError",
                                        "unexpected poll status: " \o o.poll)]

\* Connection.connect(): gen = cls._connect_gen(conninfo)
ConnectGen ==
    /\ cgen = NoGen
    /\ cgen' = NewConnectGen
    /\ UNCHANGED <<connVars, xgen, threads, lock, wire, encoding>>

\* The waiter's first next(gen): connect_start(), then the loop up to its
\* first yield, return or raise.
ConnectGenNext ==
    /\ cgen.pc = "new"
    /\ \E h \in ConnectStart :
        \E o \in ConnectPoll(h) :
            cgen' = ConnectIteration([cgen EXCEPT !.conn = h], o)
    /\ UNCHANGED <<connVars, xgen, threads, lock, wire, encoding>>

\* The waiter found the socket ready and resumes the generator with
\* gen.send(ready); the loop runs up to its next yield, return or raise.
ConnectGenSend ==
    /\ cgen.pc = "yield"
    /\ cgen.resumes < MaxResumes
    /\ \E o \in ConnectPoll(cgen.conn) :
            cgen' = ConnectIteration([cgen EXCEPT !.resumes = @ + 1,
                                                  !.wait = "none"], o)
    /\ UNCHANGED <<connVars, xgen, threads, lock, wire, encoding>>

\* The caller has its connection, or its exception, and starts over.
ConnectDone ==
    /\ cgen.pc \in {"returned", "raised"}
    /\ cgen' = NoGen
    /\ UNCHANGED <<connVars, xgen, threads, lock, wire, encoding>>

NextConnect ==
    \/ ConnectGen
    \/ ConnectGenNext
    \/ ConnectGenSend
    \/ ConnectDone

SpecConnect == Init /\ [][NextConnect]_vars

\* C27: _connect_gen is suspended asking for read readiness exactly when the
\* last connect_poll() returned READING, and for write readiness exactly when
\* it returned WRITING; every resume is followed by another connect_poll();
\* and it has returned only when the last poll returned OK, with the handle
\* set nonblocking.
C27_ConnectPolling ==
    cgen.pc \notin {"none", "new"} =>
        /\ (cgen.pc = "yield" /\ cgen.wait = "R") <=> cgen.polled = READING
        /\ (cgen.pc = "yield" /\ cgen.wait = "W") <=> cgen.polled = WRITING
        /\ cgen.pc = "yield" => cgen.wait \in {"R", "W"}
        /\ cgen.resumes > 0 => cgen.polls = cgen.resumes + 1
        /\ cgen.pc = "returned" =>
                cgen.polled = POLL_OK /\ cgen.conn.nonblocking = 1
        /\ cgen.conn.nonblocking = 1 => cgen.pc = "returned"

C27_Witness ==
    /\ cgen.pc = "returned"
    /\ cgen.waits = <<"R", "W">>
    /\ cgen.polls = 3
    /\ cgen.polled = POLL_OK
    /\ cgen.conn.nonblocking = 1

\* C28: _connect_gen never returns a handle that is BAD or whose last poll
\* FAILED: a handle that is BAD when a turn of the loop begins, and a poll that
\* returns FAILED, end the generator with OperationalError carrying the
\* handle's error message, and a poll status that is none of OK, READING,
\* WRITING, FAILED ends it with InternalError.
C28_ConnectFailure ==
    cgen.pc \notin {"none", "new"} =>
        /\ cgen.pc = "returned" =>
                cgen.conn.status # CONN_BAD /\ cgen.polled # FAILED
        /\ cgen.conn.status = CONN_BAD =>
                /\ cgen.pc = "raised"
                /\ cgen.err \in
                    {ConnError("OperationalError",
                               "connection is bad: " \o cgen.conn.msg),
                     ConnError("OperationalError",
                               "connection failed: " \o cgen.conn.msg)}
                /\ cgen.conn.msg \in ErrorMessages
        /\ cgen.polled = FAILED =>
                /\ cgen.pc = "raised"
                /\ cgen.err = ConnError("OperationalError",
                                        "connection failed: " \o cgen.conn.msg)
        /\ cgen.polled \notin {"none", POLL_OK, READING, WRITING, FAILED} =>
                /\ cgen.pc = "raised"
                /\ cgen.err.kind = "InternalError"

C28_Witness ==
    /\ cgen.pc = "raised"
    /\ cgen.polled = FAILED
    /\ cgen.resumes = 2
    /\ cgen.conn.status = CONN_BAD
    /\ cgen.err = ConnError("OperationalError",
                            "connection failed: timeout expired")

\* --------------------------------------------------------------- _exec_gen

\* Results the server answers one request with, at most.
MaxResults == 2
\* Pieces the request leaves the write buffer in, at most.
MaxOut == 2
\* Notices the server sends while the request is being written, at most.
MaxNotices == 1

\* pq.ExecStatus of the results; the COPY ones end the collection.
CopyStatus == {"COPY_IN", "COPY_OUT", "COPY_BOTH"}
ExecStatus == {"COMMAND_OK", "TUPLES_OK", "FATAL_ERROR"} \cup CopyStatus

\* What get_result() returns after the last result of a request (None).
EndOfBatch == "<end>"
\* A notice on the socket; consume_input() hands it to the notice handler.
Notice == "<notice>"

\* The answers to one request.
Batches == UNION {[1..n -> ExecStatus] : n \in 0..MaxResults}

\* pgconn.send_query() done, gen = self._exec_gen(self.pgconn) not started:
\* the request is in the write buffer (out pieces), the server will answer
\* with batch (pending), nothing has arrived (sock) or been read (parsed).
NewExecGen(batch, out) ==
    [pc |-> "new", from |-> "new", ready |-> "none",
     out |-> out, pending |-> Append(batch, EndOfBatch), sock |-> <<>>,
     parsed |-> <<>>, notices |-> 0,
     results |-> <<>>, calls |-> <<>>, batch |-> batch,
     drained |-> FALSE, busycall |-> FALSE]

RECURSIVE DropNotices(_)
DropNotices(q) ==
    IF q = <<>> THEN <<>>
    ELSE IF Head(q) = Notice THEN DropNotices(Tail(q))
    ELSE <<Head(q)>> \o DropNotices(Tail(q))

\* pgconn.flush() writing n pieces: 0 when nothing is left to write.
Flush(g, n) ==
    [g EXCEPT !.out = @ - n,
              !.drained = @ \/ (g.out - n = 0),
              !.calls = Append(@, IF g.out - n = 0 THEN "flush=0"
                                  ELSE "flush=1")]

\* pgconn.consume_input(): read what has arrived.
ConsumeInput(g) ==
    [g EXCEPT !.parsed = @ \o DropNotices(g.sock),
              !.sock = <<>>,
              !.calls = Append(@, "consume_input")]

\* pgconn.is_busy(): get_result() would have to wait.
IsBusy(g) == g.parsed = <<>>

\* What get_result() has to read first when the handle is busy: it waits until
\* the next answer of the server is in.
Awaited(g) ==
    LET got == g.parsed \o DropNotices(g.sock)
    IN  IF got # <<>>
        THEN [g EXCEPT !.parsed = got, !.sock = <<>>]
        ELSE [g EXCEPT !.parsed = <<Head(g.pending)>>, !.sock = <<>>,
                       !.pending = Tail(@)]

\* pgconn.get_result(): the next result, or the end of the batch.  After a
\* COPY result libpq goes on making up results of the same status.
GetResult(g) ==
    LET h == Awaited(g)
        res == Head(h.parsed)
    IN  [res |-> res,
         gen |-> [h EXCEPT !.parsed = IF res \in CopyStatus THEN @ ELSE Tail(@),
                           !.busycall = @ \/ IsBusy(g),
                           !.calls = Append(@, "get_result")]]

\* A faulty results.append(res) that puts the newest result first.
AppendResult_in_front(results, res) == <<res>> \o results

\* results.append(res)
AppendResult(results, res) == Append(results, res)

\* The two loops call each other on a value: {Collect(v) : v \in {a}} is the
\* set of the one generator Collect(a), with a worked out once.
RECURSIVE Collect(_)
RECURSIVE Fetch(_)

\* _exec_gen, second loop from `res = pgconn.get_result()` on.
Fetch(g) ==
    LET x == GetResult(g)
    IN  IF x.res = EndOfBatch
        THEN [x.gen EXCEPT !.pc = "returned"]
        ELSE LET a == [x.gen EXCEPT !.results = AppendResult(@, x.res)]
             IN  IF x.res \in CopyStatus
                 THEN [a EXCEPT !.pc = "returned"]
                 ELSE CHOOSE r \in {Collect(v) : v \in {a}} : TRUE

\* _exec_gen, second loop from its top: up to the yield or the return.
Collect(g) ==
    LET c == ConsumeInput(g)
        b == [c EXCEPT !.calls = Append(@, IF IsBusy(c) THEN "is_busy=True"
                                           ELSE "is_busy=False")]
    IN  IF IsBusy(c) THEN [b EXCEPT !.pc = "yieldR"]
        ELSE CHOOSE r \in {Fetch(v) : v \in {b}} : TRUE

\* A faulty first loop that asks for readiness also after flush() returned 0.
Drain_yielding_when_flushed(g, n) == [Flush(g, n) EXCEPT !.pc = "yieldRW"]

\* _exec_gen, first loop from its top, flush() writing n pieces.
Drain(g, n) ==
    LET f == Flush(g, n)
    IN  IF f.out = 0 THEN CHOOSE r \in {Collect(v) : v \in {f}} : TRUE
        ELSE [f EXCEPT !.pc = "yieldRW"]

\* A faulty first loop that flushes again without reading.
DrainResumed_without_reading(g, ready, n) == Drain(g, n)

\* _exec_gen resumed in the first loop: consume_input() if the socket was
\* readable, then flush() again.
DrainResumed(g, ready, n) ==
    IF ready = "R" THEN Drain(ConsumeInput(g), n) ELSE Drain(g, n)

\* Connection._exec_commit_rollback: self.pgconn.send_query(command);
\* gen = self._exec_gen(self.pgconn)
ExecGen ==
    /\ xgen = NoGen
    /\ \E batch \in Batches, out \in 1..MaxOut : xgen' = NewExecGen(batch, out)
    /\ UNCHANGED <<connVars, cgen, threads, lock, wire, encoding>>

\* The waiter's first next(gen).
ExecGenNext ==
    /\ xgen.pc = "new"
    /\ \E n \in 0..xgen.out : xgen' = Drain(xgen, n)
    /\ UNCHANGED <<connVars, cgen, threads, lock, wire, encoding>>

\* The waiter resumes the generator suspended in the first loop: the socket
\* is writable, or it has something to read.
ExecGenSendDraining ==
    /\ xgen.pc = "yieldRW"
    /\ \E ready \in {"R", "W"}, n \in 0..xgen.out :
        /\ ready = "R" => xgen.sock # <<>>
        /\ ready = "W" => n > 0
        /\ xgen' = DrainResumed([xgen EXCEPT !.from = "yieldRW",
                                             !.ready = ready,
                                             !.calls = <<>>], ready, n)
    /\ UNCHANGED <<connVars, cgen, threads, lock, wire, encoding>>

\* The waiter resumes the generator suspended in the second loop: the socket
\* has something to read.
ExecGenSendCollecting ==
    /\ xgen.pc = "yieldR"
    /\ xgen.sock # <<>>
    /\ xgen' = Fetch([xgen EXCEPT !.from = "yieldR", !.ready = "R",
                                  !.calls = <<>>])
    /\ UNCHANGED <<connVars, cgen, threads, lock, wire, encoding>>

\* The server sends the next answer, once it has the whole request.
ServerAnswers ==
    /\ xgen.pc \in {"yieldRW", "yieldR"}
    /\ xgen.out = 0
    /\ xgen.pending # <<>>
    /\ xgen' = [xgen EXCEPT !.sock = Append(@, Head(xgen.pending)),
                            !.pending = Tail(@)]
    /\ UNCHANGED <<connVars, cgen, threads, lock, wire, encoding>>

\* The server sends a notice while the request is still being written.
ServerNotice ==
    /\ xgen.pc = "yieldRW"
    /\ xgen.notices < MaxNotices
    /\ xgen' = [xgen EXCEPT !.sock = Append(@, Notice), !.notices = @ + 1]
    /\ UNCHANGED <<connVars, cgen, threads, lock, wire, encoding>>

\* (pgres,) = self.wait(...): the caller has the results.
ExecDone ==
    /\ xgen.pc = "returned"
    /\ xgen' = NoGen
    /\ UNCHANGED <<connVars, cgen, threads, lock, wire, encoding>>

NextExec ==
    \/ ExecGen
    \/ ExecGenNext
    \/ ExecGenSendDraining
    \/ ExecGenSendCollecting
    \/ ServerAnswers
    \/ ServerNotice
    \/ ExecDone

SpecExec == Init /\ [][NextExec]_vars

\* The waiter resumes the generator after every yield (its select() returns
\* once the socket is ready), flush() gets the request written, and the server
\* sends its answers.
SpecExecFair ==
    /\ SpecExec
    /\ WF_vars(ExecGenNext \/ ExecGenSendDraining \/ ExecGenSendCollecting)
    /\ WF_vars(ServerAnswers)

\* The generator has run since it was created or last resumed.
ExecRan == xgen.pc \in {"yieldRW", "yieldR", "returned"}

\* C24: in the second loop of _exec_gen every get_result() comes straight
\* after a consume_input() and an is_busy() that returned False, also when the
\* generator has been resumed after asking for read readiness, so that
\* get_result() is never called on a busy handle.
C24_GetResultWhenNotBusy ==
    ExecRan =>
        /\ ~xgen.busycall
        /\ \A i \in 1..Len(xgen.calls) :
                xgen.calls[i] = "get_result" =>
                    /\ i > 2
                    /\ xgen.calls[i - 1] = "is_busy=False"
                    /\ xgen.calls[i - 2] = "consume_input"

\* C25: _exec_gen leaves its first loop only when flush() has returned 0; each
\* flush() that returns something else is followed by a yield asking for read
\* or write readiness; resumed there with Ready.R it calls consume_input() and
\* then flush(), resumed with Ready.W it calls flush() at once; and no
\* get_result() is called before a flush() has returned 0.
C25_DrainBeforeCollect ==
    ExecRan =>
        /\ xgen.pc = "yieldRW" =>
                /\ xgen.out > 0 /\ ~xgen.drained
                /\ xgen.calls[Len(xgen.calls)] = "flush=1"
        /\ xgen.pc \in {"yieldR", "returned"} => xgen.out = 0 /\ xgen.drained
        /\ (xgen.from = "yieldRW" /\ xgen.ready = "R") =>
                /\ xgen.calls[1] = "consume_input"
                /\ xgen.calls[2] \in {"flush=0", "flush=1"}
        /\ (xgen.from = "yieldRW" /\ xgen.ready = "W") =>
                xgen.calls[1] \in {"flush=0", "flush=1"}
        /\ \A i \in 1..Len(xgen.calls) :
                xgen.calls[i] = "flush=1" => i = Len(xgen.calls)
        /\ \A i \in 1..Len(xgen.calls) :
                xgen.calls[i] = "get_result" =>
                    \/ xgen.from = "yieldR"
                    \/ \E j \in 1..(i - 1) : xgen.calls[j] = "flush=0"

C25_Witness ==
    /\ xgen.pc = "yieldR"
    /\ xgen.from = "yieldRW" /\ xgen.ready = "R"
    /\ xgen.notices = 1
    /\ xgen.calls = <<"consume_input", "flush=0", "consume_input",
                      "is_busy=True">>

\* The place of the first COPY result in a batch, 0 when it has none.
FirstCopy(batch) ==
    LET at == {i \in 1..Len(batch) : batch[i] \in CopyStatus}
    IN  IF at = {} THEN 0 ELSE CHOOSE i \in at : \A j \in at : i <= j

\* C26: the list _exec_gen returns holds the results in the order get_result()
\* produced them: all of them when none is a COPY result (the end marker is
\* not in the list), otherwise those up to the first COPY result, which is the
\* last of the list and its only COPY result.
C26_ResultsInOrder ==
    xgen.pc = "returned" =>
        LET n == Len(xgen.results)
        IN  /\ n <= Len(xgen.batch)
            /\ xgen.results = SubSeq(xgen.batch, 1, n)
            /\ \A i \in 1..n : xgen.results[i] # EndOfBatch
            /\ \A i \in 1..(n - 1) : xgen.results[i] \notin CopyStatus
            /\ n = IF FirstCopy(xgen.batch) = 0 THEN Len(xgen.batch)
                   ELSE FirstCopy(xgen.batch)

C26_Witness ==
    /\ xgen.pc = "returned"
    /\ xgen.batch = <<"COMMAND_OK", "COPY_OUT">>
    /\ xgen.results = <<"COMMAND_OK", "COPY_OUT">>

\* --------------------------------------------------------- Connection.lock

\* The threads sharing one connection.
Threads == {1, 2}
\* Calls each thread makes (the end of a with-block not counted).
MaxCalls == 2

\* A thread that has called nothing yet.  pc: "idle" outside every with-block,
\* "inside" in the body of one, "acquiring" at `with self.lock:`, "running"
\* holding the lock, "waiting" in self.wait() for the result of the command it
\* sent.  h, step: the handler it is in and the part of it that comes next.
\* contended: when it asked for the lock, a commit() or rollback() of another
\* thread had a command in flight.  unlocked: it changed
\* Connection._savepoints while another thread had the lock.
NewThread ==
    [pc |-> "idle", h |-> "none", step |-> 0, back |-> "idle", tx |-> NoTx,
     e |-> NoExc, err |-> NoExc, calls |-> 0, contended |-> FALSE,
     unlocked |-> FALSE]

\* The other things the one-caller model keeps, which the threads leave alone.
spectators ==
    <<autocommit, fresh, stack, exc, ev, log, rows, flags, userac, encoding>>

\* A faulty lock that lets everyone in.
LockFree_always(l) == TRUE

\* threading.Lock / asyncio.Lock: acquire() goes through when nobody holds it.
LockFree(l) == l = 0

\* A faulty handler that keeps the lock when it raises.
Unlock_unless_raised(l, th) == IF th.err # NoExc THEN l ELSE 0

\* The end of `with self.lock:`, reached by a return or by an exception: the
\* lock l that thread th holds is free again.
Unlock(l, th) == 0

\* A faulty handler that takes the lock for each command on its own.
KeepsLock_per_command(h, step) == FALSE

\* `with self._conn.lock:` spans the whole of __enter__ and of __exit__.
KeepsLock(h, step) == TRUE

\* The parts a handler runs, a part ending where it waits for a result:
\* __enter__ and __exit__ send up to two commands, commit()/rollback() one.
LastStep(h) == IF h \in {"enter", "exit"} THEN 2 ELSE 1

\* Threads with a command in flight: sent, its result not yet collected.
InFlight == {t \in Threads : threads[t].pc = "waiting"}

\* Some commit()/rollback() of another thread has its command in flight.
Contended(t) ==
    \E u \in Threads \ {t} :
        threads[u].pc = "waiting" /\ threads[u].h \in {"commit", "rollback"}

\* The command thread t sent last.
LastSent(t) ==
    LET at == {i \in 1..Len(wire) : wire[i].t = t /\ wire[i].what = "send"}
    IN  wire[CHOOSE i \in at : \A j \in at : j <= i].cmd

\* What the wire keeps of the commands cmds sent by thread t.
Sent(t, cmds) ==
    [i \in 1..Len(cmds) |->
        [t |-> t, call |-> threads[t].calls, cmd |-> cmds[i], what |-> "send"]]

\* The thread has taken the lock for a handler that has not returned.
MidHandler(th) ==
    th.pc \in {"running", "waiting"} \/ (th.pc = "acquiring" /\ th.step > 1)

\* The wire after a step that leaves the threads as in ths: the record starts
\* afresh when no handler is in progress any more.
WireAfter(ths, w) ==
    IF \E t \in Threads : MidHandler(ths[t]) THEN w ELSE <<>>

\* Where a thread is when its handler has returned or raised.
Returned(th) ==
    IF th.h \in {"commit", "rollback"} THEN th.back
    ELSE IF th.h = "enter" /\ th.err = NoExc THEN "inside"
    ELSE "idle"

\* A thread starts a call: it gets to `with self.lock:`.
Calling(t, h, tx, e) ==
    [threads[t] EXCEPT !.pc = "acquiring", !.h = h, !.step = 1,
                       !.back = threads[t].pc, !.tx = tx, !.e = e,
                       !.err = NoExc, !.calls = @ + 1,
                       !.contended = Contended(t)]

\* with conn.transaction(name):  -- __enter__ called
CallEnter(t, name) ==
    /\ threads[t].pc = "idle"
    /\ threads[t].calls < MaxCalls
    /\ threads' = [threads EXCEPT
                    ![t] = Calling(t, "enter", TxInit(name, FALSE).tx, NoExc)]
    /\ UNCHANGED <<srv, savepoints, spectators, cgen, xgen, lock, wire>>

\* The end of the with-block, reached normally or by an exception.
CallExit(t, e) ==
    /\ threads[t].pc = "inside"
    /\ threads' = [threads EXCEPT
                    ![t] = [Calling(t, "exit", threads[t].tx, e)
                                EXCEPT !.calls = threads[t].calls]]
    /\ UNCHANGED <<srv, savepoints, spectators, cgen, xgen, lock, wire>>

\* conn.commit() / conn.rollback()
CallCommitRollback(t, command) ==
    /\ threads[t].pc \in {"idle", "inside"}
    /\ threads[t].calls < MaxCalls
    /\ threads' = [threads EXCEPT
                    ![t] = Calling(t, command, threads[t].tx, NoExc)]
    /\ UNCHANGED <<srv, savepoints, spectators, cgen, xgen, lock, wire>>

\* `with self.lock:` / `with self._conn.lock:` -- the thread gets the lock.
Acquire(t) ==
    /\ threads[t].pc = "acquiring"
    /\ LockFree(lock)
    /\ lock' = t
    /\ threads' = [threads EXCEPT ![t].pc = "running"]
    /\ UNCHANGED <<srv, savepoints, spectators, cgen, xgen, wire>>

\* A part r of a handler has run in thread t: the commands it sent are on the
\* wire; the thread waits for the result if it sent one, else leaves the
\* handler (after its last part, or by an exception) or goes on.
Ran(t, r) ==
    LET th == [threads[t] EXCEPT
                    !.tx = r.tx, !.err = r.err,
                    !.unlocked = @ \/ (r.sp # savepoints /\ lock # t)]
        leaves == r.cmds = <<>>
                    /\ (r.err # NoExc \/ th.step = LastStep(th.h))
    IN  /\ srv' = r.srv
        /\ savepoints' = r.sp
        /\ lock' = IF leaves THEN Unlock(lock, th) ELSE lock
        /\ threads' = [threads EXCEPT ![t] =
                IF r.cmds # <<>> THEN [th EXCEPT !.pc = "waiting"]
                ELSE IF leaves THEN [th EXCEPT !.pc = Returned(th)]
                ELSE [th EXCEPT !.step = @ + 1]]
        /\ wire' = WireAfter(threads', wire \o Sent(t, r.cmds))
        /\ UNCHANGED <<spectators, cgen, xgen>>

\* Transaction.__enter__ up to the result of BEGIN.
EnterFrameStep(t) ==
    /\ threads[t].pc = "running"
    /\ threads[t].h = "enter" /\ threads[t].step = 1
    /\ Ran(t, EnterFrame(Run(srv, savepoints, autocommit, threads[t].tx)))

\* Transaction.__enter__ from `if self._savepoint_name is not None:` on.
EnterSavepointStep(t) ==
    /\ threads[t].pc = "running"
    /\ threads[t].h = "enter" /\ threads[t].step = 2
    /\ Ran(t, EnterSavepoint(Run(srv, savepoints, autocommit, threads[t].tx)))

\* Transaction.__exit__ up to the result of RELEASE / ROLLBACK TO SAVEPOINT.
ExitSavepointStep(t) ==
    /\ threads[t].pc = "running"
    /\ threads[t].h = "exit" /\ threads[t].step = 1
    /\ Ran(t, ExitSavepoint(Run(srv, savepoints, autocommit, threads[t].tx),
                            CommitPath(threads[t].tx, threads[t].e)))

\* Transaction.__exit__ from `if self._outer_transaction:` on.
ExitOuterStep(t) ==
    /\ threads[t].pc = "running"
    /\ threads[t].h = "exit" /\ threads[t].step = 2
    /\ Ran(t, ExitOuter(Run(srv, savepoints, autocommit, threads[t].tx),
                        CommitPath(threads[t].tx, threads[t].e)))

\* Connection._exec_commit_rollback up to self.wait(...).
ExecCommitRollbackStep(t) ==
    /\ threads[t].pc = "running"
    /\ threads[t].h \in {"commit", "rollback"}
    /\ Ran(t, [ExecCommitRollback(srv, savepoints, autocommit, threads[t].h,
                                  FALSE) EXCEPT !.tx = threads[t].tx])

\* self.wait(...) returns in thread t: the result of its command is in.  The
\* handler raises if the command failed, returns if that was its last part,
\* and otherwise goes on.
WaitDone(t) ==
    /\ threads[t].pc = "waiting"
    /\ LET th == threads[t]
           leaves == th.err # NoExc \/ th.step = LastStep(th.h)
           keeps == ~leaves /\ KeepsLock(th.h, th.step)
       IN  /\ lock' = IF keeps THEN lock ELSE Unlock(lock, th)
           /\ threads' = [threads EXCEPT ![t] =
                    IF leaves THEN [th EXCEPT !.pc = Returned(th)]
                    ELSE [th EXCEPT !.step = @ + 1,
                                    !.pc = IF keeps THEN "running"
                                           ELSE "acquiring"]]
           /\ wire' = WireAfter(threads',
                                Append(wire, [t |-> t, call |-> th.calls,
                                              cmd |-> LastSent(t),
                                              what |-> "done"]))
    /\ UNCHANGED <<srv, savepoints, spectators, cgen, xgen>>

\* A cursor of the connection runs a statement while nobody holds the lock;
\* with autocommit off that begins a transaction.
Statement ==
    /\ lock = 0
    /\ srv.status = IDLE
    /\ srv' = ImplicitBegin(srv, autocommit)
    /\ UNCHANGED <<savepoints, spectators, cgen, xgen, threads, lock, wire>>

InitLock ==
    /\ ConnInit
    /\ cgen = NoGen
    /\ xgen = NoGen
    /\ threads = [t \in Threads |-> NewThread]
    /\ lock = 0
    /\ wire = <<>>
    /\ encoding = NewEncoding

NextLock ==
    \/ \E t \in Threads, name \in GivenNames : CallEnter(t, name)
    \/ \E t \in Threads, e \in {NoExc, Expected} : CallExit(t, e)
    \/ \E t \in Threads, command \in {"commit", "rollback"} :
            CallCommitRollback(t, command)
    \/ \E t \in Threads : Acquire(t)
    \/ \E t \in Threads : EnterFrameStep(t)
    \/ \E t \in Threads : EnterSavepointStep(t)
    \/ \E t \in Threads : ExitSavepointStep(t)
    \/ \E t \in Threads : ExitOuterStep(t)
    \/ \E t \in Threads : ExecCommitRollbackStep(t)
    \/ \E t \in Threads : WaitDone(t)
    \/ Statement

SpecLock == InitLock /\ [][NextLock]_vars

\* C21: at most one command is in flight on the connection; a thread with a
\* command in flight holds the lock; on the wire every command is followed
\* directly by its own result, so that a commit()/rollback() called while
\* another thread's command is in flight sends its command only after that
\* thread has collected its result, and results come in the order of the
\* commands.
C21_OneCommandInFlight ==
    /\ Cardinality(InFlight) <= 1
    /\ \A t \in InFlight : lock = t
    /\ \A i \in 1..Len(wire) :
        /\ wire[i].what = "send" =>
                \/ i = Len(wire) /\ wire[i].t \in InFlight
                \/ /\ i < Len(wire)
                   /\ wire[i + 1] = [wire[i] EXCEPT !.what = "done"]
        /\ wire[i].what = "done" =>
                i > 1 /\ wire[i - 1] = [wire[i] EXCEPT !.what = "send"]

C21_Witness ==
    /\ threads[1].h = "commit" /\ threads[1].pc = "idle"
    /\ threads[1].err = NoExc
    /\ threads[2].h = "rollback" /\ threads[2].pc = "waiting"
    /\ threads[2].contended
    /\ lock = 2
    /\ wire = <<[t |-> 2, call |-> 1, cmd |-> "rollback", what |-> "send"]>>

\* C22: a thread in __enter__ or __exit__ holds the connection lock from the
\* first statement to the return, also while it waits for the result of a
\* command; the commands and results of one call are next to each other on the
\* wire, with nothing of another thread between them; and
\* Connection._savepoints is never changed by a thread while another one holds
\* the lock.
C22_ScopeAtomic ==
    /\ \A t \in Threads :
        /\ threads[t].pc \in {"running", "waiting"} => lock = t
        /\ MidHandler(threads[t]) => threads[t].pc # "acquiring"
        /\ ~threads[t].unlocked
    /\ \A i \in 1..Len(wire) : \A k \in i..Len(wire) :
        (wire[i].t = wire[k].t /\ wire[i].call = wire[k].call) =>
            \A j \in i..k : wire[j].t = wire[i].t /\ wire[j].call = wire[i].call

C22_Witness ==
    /\ threads[1].h = "enter" /\ threads[1].pc = "waiting"
    /\ threads[1].step = 2
    /\ lock = 1
    /\ threads[2].pc = "acquiring"
    /\ Len(wire) = 3
    /\ wire[1].cmd = "BEGIN" /\ wire[2].cmd = "BEGIN"
    /\ wire[3] = [t |-> 1, call |-> 1, cmd |-> "SAVEPOINT foo", what |-> "send"]
    /\ savepoints = SpList(<<"foo">>)

\* The names of the savepoints defined in the server's transaction block,
\* outermost first.
ServerSavepoints ==
    [i \in 1..(Len(srv.frames) - 1) |-> srv.frames[i + 1].name]

\* C31: after every __enter__ and __exit__ that raised nothing,
\* Connection._savepoints lists the savepoints defined in the server's
\* transaction block, in order, also after an exit that rolled back to its
\* savepoint (runs with no commit()/rollback() call inside a scope).
C31_StackMirrorsServer ==
    (ev.op \in {"enter", "exit"} /\ ev.err = NoExc /\ ~flags.meddled) =>
        savepoints.list = ServerSavepoints

\* C34: `assert self._conn._savepoints is None` never fails: whenever a scope
\* is entered outside every other scope with the session idle,
\* Connection._savepoints is None.
C34_AssertHolds ==
    (ev.op = "enter" /\ ev.was.status = IDLE /\ ev.was.depth = 0) =>
        ev.was.sp.none /\ ev.err # AssertionError

\* C35: when the command of an __enter__ fails, the error reaches the caller
\* and Connection._savepoints is what it was before the enter.
C35_FailedEnterLeavesStack ==
    (ev.op = "enter" /\ ev.err = OperationalError) =>
        exc = OperationalError /\ savepoints = ev.was.sp

\* ------------------------------------------- scope objects used another way

\* `with tx:` again, tx being the Transaction object whose with-block has just
\* ended: __enter__ runs on the object as its first use left it.
EnterAgain ==
    /\ exc = NoExc
    /\ fresh = <<>>
    /\ ev.op = "exit"
    /\ ev.tx.st \in {"COMMITTED", "ROLLED_BACK"}
    /\ Len(stack) < MaxScopes
    /\ Len(srv.frames) <= MaxScopes
    /\ LET r == TxEnter(srv, savepoints, autocommit, ev.tx)
           entered == r.err = NoExc
           t == [r.tx EXCEPT !.st = IF entered THEN "ENTERED" ELSE "FAILED"]
       IN  /\ srv' = r.srv
           /\ savepoints' = r.sp
           /\ autocommit' = r.ac
           /\ stack' = IF entered THEN Append(stack, t) ELSE stack
           /\ exc' = r.err
           /\ ev' = Event("reenter", t, NoExc, r.cmds, r.err)
           /\ log' = <<>>
           /\ flags' = [FlagsOutside EXCEPT
                            !.plain = FALSE, !.scopes = 0,
                            !.from = IF entered /\ stack = <<>>
                                     THEN srv.status ELSE @]
    /\ rows' = RowsOutside
    /\ UNCHANGED <<fresh, userac>>
    /\ UNCHANGED ioVars

\* Callers that use a Transaction object for a second with-block, or that
\* name a savepoint the way __enter__ names them.
NextReuse ==
    \/ \E name \in {None, AutoName(2)} : Create(name, FALSE)
    \/ Enter
    \/ EnterAgain
    \/ \E e \in {NoExc, Expected} : Exit(e)
    \/ Catch
    \/ Insert

SpecReuse == Init /\ [][NextReuse]_vars

\* C33: a Transaction object is entered once: __enter__ on an object whose
\* with-block has ended (COMMITTED or ROLLED_BACK) is refused, it sends nothing
\* and the caller is in no new scope.
C33_ScopeLifecycle ==
    ev.op = "reenter" =>
        /\ ev.err # NoExc
        /\ ev.cmds = <<>>
        /\ ev.tx.st # "ENTERED"
        /\ Len(stack) = ev.was.depth

\* C36: the name __enter__ makes up for a scope is none of the names on
\* Connection._savepoints when the scope is entered.
C36_AutoNameUnique ==
    (ev.op = "enter" /\ ev.tx.given = None /\ ev.tx.name # None) =>
        \A i \in 1..Len(ev.was.sp.list) : ev.was.sp.list[i] # ev.tx.name

\* -------------------------------------------------- BaseConnection.codec

\* Times the session's client_encoding is changed.
MaxChanges == 3

\* Values of the client_encoding parameter: encodings with a Python codec,
\* SQL_ASCII, and one the lookup table does not have.
ServerEncodings == {"UTF8", "LATIN1", "EUC_JP", "SQL_ASCII", "MULE_INTERNAL"}

\* pq.py_codecs.get(name): the Python codec of a server encoding, None for
\* SQL_ASCII and for a name that is not in the table.
PyCodecs(name) ==
    CASE name = "UTF8" -> "utf8"
      [] name = "LATIN1" -> "iso8859-1"
      [] name = "EUC_JP" -> "euc_jp"
      [] OTHER -> None

\* codecs.lookup(pyenc), by the name of the codec it returns.
CodecsLookup(pyenc) ==
    CASE pyenc = "utf8" -> "utf-8"
      [] pyenc = "iso8859-1" -> "iso8859-1"
      [] pyenc = "euc_jp" -> "euc_jp"
      [] pyenc = "ascii" -> "ascii"
      [] OTHER -> "<LookupError>"

\* A faulty property that looks the codec up once and keeps it.
Codec_looked_up_once(c, pgenc) ==
    IF c.pgenc = ""
    THEN LET pyenc == IF PyCodecs(pgenc) # None THEN PyCodecs(pgenc) ELSE "ascii"
         IN  [c EXCEPT !.codec = CodecsLookup(pyenc), !.pgenc = pgenc,
                       !.read = CodecsLookup(pyenc)]
    ELSE [c EXCEPT !.read = c.codec]

\* BaseConnection.codec, pgenc being what parameter_status(b"client_encoding")
\* returns.
Codec(c, pgenc) ==
    IF c.pgenc # pgenc
    THEN LET pyenc == IF PyCodecs(pgenc) # None THEN PyCodecs(pgenc) ELSE "ascii"
         IN  [c EXCEPT !.codec = CodecsLookup(pyenc), !.pgenc = pgenc,
                       !.read = CodecsLookup(pyenc)]
    ELSE [c EXCEPT !.read = c.codec]

\* conn.codec is read (encode(), decode()).
ReadCodec ==
    /\ encoding' = Codec([encoding EXCEPT
                            !.op = "read",
                            !.was = [pgenc |-> encoding.pgenc,
                                     codec |-> encoding.codec]],
                         encoding.server)
    /\ UNCHANGED <<connVars, cgen, xgen, threads, lock, wire>>

\* SET client_encoding TO name: the session reports another encoding.
SetClientEncoding(name) ==
    /\ encoding.changes < MaxChanges
    /\ name # encoding.server
    /\ encoding' = [encoding EXCEPT !.server = name, !.op = "set",
                                    !.changes = @ + 1]
    /\ UNCHANGED <<connVars, cgen, xgen, threads, lock, wire>>

NextCodec ==
    \/ ReadCodec
    \/ \E name \in ServerEncodings : SetClientEncoding(name)

SpecCodec == Init /\ [][NextCodec]_vars

C38_ExecReturns ==
    /\ (xgen # NoGen /\ xgen.pc = "new") ~> (xgen # NoGen /\ xgen.pc = "returned")
    /\ [](xgen # NoGen =>
            \A i \in 1..Len(xgen.results) :
                xgen.results[i] \in CopyStatus =>
                    /\ i = Len(xgen.results)
                    /\ xgen.pc = "returned")

C38_Witness ==
    /\ xgen # NoGen
    /\ xgen.pc = "returned"
    /\ xgen.from = "yieldR"
    /\ xgen.drained
    /\ xgen.batch = <<"COPY_IN", "COMMAND_OK">>
    /\ xgen.results = <<"COPY_IN">>

====
